---- MODULE Spec2Model ----
(***************************************************************************)
(* Model of packages/qwik/src/core/object/store.ts: snapshotState (the     *)
(* collector and the snapshot writer), resumeContainer (the reviver), the  *)
(* DOM scope walker and the text escaping helpers.                         *)
(*                                                                         *)
(* Runtime values are pairs <<kind, n>>: <<"obj", i>> a plain object,      *)
(* <<"proxy", i>> the reactive proxy of object i, <<"watch", k>> a watch   *)
(* descriptor, <<"qrl", k>> a lazy closure, <<"el", k>> a DOM element.     *)
(* Strings are sequences of one-character strings, so that join, split,    *)
(* prefix and suffix tests are computed as the code computes them.         *)
(***************************************************************************)
EXTENDS Integers, Sequences, FiniteSets, TLC

VARIABLES
  present,      \* the nodes currently attached under the document
  qcontainer,   \* node -> value of the q:container attribute, or NoAttr
  qid,          \* element -> value of the ELEMENT_ID attribute (a string), or NoAttr
  scriptText,   \* text content of the qwik/json script element
  ctx,          \* element -> its component-state record on the writing side
  subsOf,       \* object index -> ordered subscriber keys of its proxy (proxyMap)
  destroyed,    \* the watch descriptors destroyWatch has been called on
  setup,        \* number of state-building steps taken so far
  snapStatus,   \* "none", "returned" or "threw": outcome of snapshotState
  snap,         \* the SnapshotResult snapshotState returned
  collected,    \* the collector as snapshotState left it
  rctx,         \* element -> its component-state record on the resuming side
  robjs,        \* the meta.objs array as resumeContainer left it
  restored,     \* index of objs -> subscription map given to _restoreQObject
  resumeStatus, \* "none", "skipped", "done" or "threw": outcome of the last call
  removedCount, \* number of elements detached after the snapshot was embedded
  qresume,      \* number of 'qresume' events dispatched on the container
  str,          \* text helpers: the input string
  escaped,      \* text helpers: escapeText(str), once computed
  unescaped     \* text helpers: unescapeText(escaped), once computed

vars == <<present, qcontainer, qid, scriptText, ctx, subsOf, destroyed, setup,
          snapStatus, snap, collected, rctx, robjs, restored, resumeStatus,
          removedCount, qresume, str, escaped, unescaped>>

domVars  == <<present, qcontainer, qid, scriptText>>
liveVars == <<ctx, subsOf, destroyed, setup>>
snapVars == <<snapStatus, snap, collected>>
resVars  == <<rctx, robjs, restored, resumeStatus, qresume>>
textVars == <<str, escaped, unescaped>>

----------------------------------------------------------------------------
(* Bounds of the model *)

NumObjs == 2          \* plain objects 1..NumObjs
MaxRefs == 1          \* longest reference list (ctx.refMap.array) built
MaxSetup == 3         \* state-building steps before the snapshot
MaxRemoved == 1       \* elements detached between pause and resume
MaxStrLen == 4        \* longest input of the text helpers, in tokens

----------------------------------------------------------------------------
(* Generic helpers *)

Range(s) == {s[i] : i \in 1..Len(s)}

SetAdd(s, x) == IF x \in Range(s) THEN s ELSE Append(s, x)

RECURSIVE Flatten(_)
Flatten(ss) == IF ss = <<>> THEN <<>> ELSE Head(ss) \o Flatten(Tail(ss))

Nil == <<"nil", 0>>
NoAttr == <<"NOATTR">>
Absent == <<"ABSENT">>

----------------------------------------------------------------------------
(* Strings and ids *)

Digits36 == <<"0", "1", "2", "3", "4", "5", "6", "7", "8", "9", "a", "b", "c",
              "d", "e", "f", "g", "h", "i", "j", "k", "l", "m", "n", "o", "p",
              "q", "r", "s", "t", "u", "v", "w", "x", "y", "z">>

NaN == -1

RECURSIVE intToStr(_)
intToStr(nu) ==
  IF nu < 36 THEN <<Digits36[nu + 1]>>
  ELSE intToStr(nu \div 36) \o <<Digits36[(nu % 36) + 1]>>

IsDigit36(c) == \E i \in 1..36 : Digits36[i] = c
DigitVal(c) == (CHOOSE i \in 1..36 : Digits36[i] = c) - 1

RECURSIVE parseDigits(_, _)
parseDigits(s, acc) ==
  IF s = <<>> \/ ~IsDigit36(Head(s)) THEN acc
  ELSE parseDigits(Tail(s), acc * 36 + DigitVal(Head(s)))

\* parseInt(nu, 36): the longest prefix of base-36 digits, NaN when it is empty
strToInt(nu) ==
  IF nu = <<>> \/ ~IsDigit36(Head(nu)) THEN NaN ELSE parseDigits(nu, 0)

ELEMENT_ID_PREFIX == <<"#">>

startsWith(s, p) == Len(s) >= Len(p) /\ SubSeq(s, 1, Len(p)) = p
endsWith(s, p) == Len(s) >= Len(p) /\ SubSeq(s, Len(s) - Len(p) + 1, Len(s)) = p

\* Array.prototype.join: a null element is joined as the empty string
RECURSIVE join(_, _)
join(parts, sep) ==
  IF parts = <<>> THEN <<>>
  ELSE LET h == IF Head(parts) = Absent THEN <<>> ELSE Head(parts)
       IN IF Len(parts) = 1 THEN h ELSE h \o sep \o join(Tail(parts), sep)

RECURSIVE splitAcc(_, _, _)
splitAcc(s, c, cur) ==
  IF s = <<>> THEN <<cur>>
  ELSE IF Head(s) = c THEN <<cur>> \o splitAcc(Tail(s), c, <<>>)
  ELSE splitAcc(Tail(s), c, Append(cur, Head(s)))

\* String.prototype.split on a one-character separator
split(s, c) == splitAcc(s, c, <<>>)

----------------------------------------------------------------------------
(* The document *)

Root == 0
Elements == {1, 2, 3}
Nested == 4            \* a nested container inside Root, holding element 3
OtherScript == 5       \* a script element that is not qwik/json
JsonScript == 6        \* the qwik/json script element
Nodes == {Root} \cup Elements \cup {Nested, OtherScript, JsonScript}

El(k) == <<"el", k>>

childNodes(n) ==
  IF n = Root THEN <<1, 2, Nested, JsonScript, OtherScript>>
  ELSE IF n = Nested THEN <<3>>
  ELSE <<>>

\* the element children of n that are attached
children(n) == SelectSeq(childNodes(n), LAMBDA c : c \in present)

tagName(n) == IF n \in {OtherScript, JsonScript} THEN "SCRIPT" ELSE "DIV"
typeAttr(n) ==
  IF n = JsonScript THEN "qwik/json"
  ELSE IF n = OtherScript THEN "text/javascript" ELSE "none"

RECURSIVE attachedUnder(_, _)
attachedUnder(n, top) ==
  \/ n \in Range(children(top))
  \/ \E c \in Range(children(top)) : attachedUnder(n, c)

\* el.isConnected
isConnectedEl(n) == attachedUnder(n, Root)

isContainer(el) == qcontainer[el] # NoAttr

hasQId(el) == el \in Elements /\ qid[el] # NoAttr

hasContext(el) == el \in Elements /\ ctx[el].has

RECURSIVE walkList(_)
walkList(kids) ==
  IF kids = <<>> THEN <<>>
  ELSE LET child == Head(kids)
       IN (IF ~isContainer(child)
           THEN <<child>> \o walkList(children(child))
           ELSE <<>>) \o walkList(Tail(kids))

\* every element walkNodes visits under parent, in document order
walkNodes(parent) == walkList(children(parent))

\* predicate is the name of the filter: "hasContext" or "hasQId"
getNodesInScope(parent, predicate) ==
  SelectSeq(walkNodes(parent),
            LAMBDA el : IF predicate = "hasContext" THEN hasContext(el) ELSE hasQId(el))

RECURSIVE scanBack(_)
scanBack(kids) ==
  IF kids = <<>> THEN Nil
  ELSE LET child == kids[Len(kids)]
       IN IF tagName(child) = "SCRIPT" /\ typeAttr(child) = "qwik/json"
          THEN <<"node", child>>
          ELSE scanBack(SubSeq(kids, 1, Len(kids) - 1))

\* the first script child of parentElm, whatever its type
getQwikJSONAnyScript(parentElm) ==
  IF \E i \in 1..Len(children(parentElm)) : tagName(children(parentElm)[i]) = "SCRIPT"
  THEN <<"node", children(parentElm)[
          CHOOSE i \in 1..Len(children(parentElm)) :
            /\ tagName(children(parentElm)[i]) = "SCRIPT"
            /\ \A j \in 1..(i - 1) :
                  tagName(children(parentElm)[j]) # "SCRIPT"]>>
  ELSE Nil

getQwikJSON(parentElm) == scanBack(children(parentElm))

\* script.remove(): the attached nodes once the script is detached
removeScript(script) == present \ {script}

----------------------------------------------------------------------------
(* Runtime values *)

Objs == 1..NumObjs
Obj(i) == <<"obj", i>>
Proxy(i) == <<"proxy", i>>
Watch(k) == <<"watch", k>>
Qrl(k) == <<"qrl", k>>

Doc == <<"document", 0>>
Undefined == <<"undefined", 0>>
UNDEFINED_PREFIX == <<"sentinel", 16>>
DOCUMENT_PREFIX == <<"sentinel", 18>>

RenderQrl == Qrl(1)      \* a component's render closure, capturing nothing
ListenerQrl == Qrl(2)    \* an event listener closure, capturing a proxy

\* obj[QOjectTargetSymbol]: the target of a proxy, Nil for anything else
targetOf(obj) == IF obj[1] = "proxy" THEN Obj(obj[2]) ELSE Nil

isNode(obj) == obj[1] = "el"
isElement(obj) == obj[1] = "el"
isQrl(obj) == obj[1] = "qrl"
isObjectType(obj) == obj[1] \in {"obj", "proxy", "watch", "qrl", "el", "document"}

\* the own enumerable fields of a plain value: <<key, value>> pairs
fieldsOf(obj) ==
  IF obj = Obj(1) /\ NumObjs >= 2 THEN << <<"next", Obj(2)>> >> ELSE <<>>

\* qrl.captureRef
captureRef(qrl) == IF qrl = ListenerQrl THEN <<Proxy(NumObjs)>> ELSE <<>>

\* proxyMap.get(obj)?.[QOjectSubsSymbol]: subscriber keys, in insertion order
subsOfTarget(obj) == IF obj[1] = "obj" THEN subsOf[obj[2]] ELSE <<>>

\* the set of property names a subscriber depends on; Nil is "any property"
subSet(i, sub) == IF i = 1 THEN Nil ELSE <<"set", i>>

normalizeObj(obj) ==
  IF obj = Doc THEN DOCUMENT_PREFIX
  ELSE IF obj = Undefined THEN UNDEFINED_PREFIX
  ELSE IF isObjectType(obj) /\ targetOf(obj) # Nil THEN targetOf(obj)
  ELSE obj

----------------------------------------------------------------------------
(* Component state *)

EmptyCtx ==
  [has |-> FALSE, refs |-> <<>>, props |-> Nil, renderQrl |-> Nil, seq |-> <<>>,
   watches |-> <<>>, contexts |-> <<>>, listeners |-> <<>>]

NewCtx == [EmptyCtx EXCEPT !.has = TRUE]

\* getContext(el): the record of el, created when el has none
getContext(c, el) == IF c[el].has THEN c[el] ELSE NewCtx

----------------------------------------------------------------------------
(* Collector *)

createCollector == [seen |-> {}, objSet |-> <<>>, elements |-> <<>>, watches |-> <<>>]

valueTasks(values) == [i \in 1..Len(values) |-> <<"value", values[i]>>]

\* the collectValue calls collectElement makes for an element with state
elementTasks(el) ==
  LET c == ctx[el]
  IN valueTasks((IF c.props # Nil THEN <<c.props>> ELSE <<>>)
                \o (IF c.renderQrl # Nil THEN <<c.renderQrl>> ELSE <<>>)
                \o c.seq \o c.refs \o c.watches
                \o [i \in 1..Len(c.contexts) |-> c.contexts[i][2]])

\* collectValue, collectQObjects, collectQrl, collectSubscriptions and
\* collectElement as one depth-first traversal: the stack holds the calls
\* still to be made, first call first.
RECURSIVE collect(_, _)
collect(stack, col) ==
  IF stack = <<>> THEN col
  ELSE
    LET task == Head(stack)
        rest == Tail(stack)
        v == task[2]
    IN
    CASE task[1] = "value" ->
           IF v = Undefined THEN
             collect(rest, [col EXCEPT !.objSet = SetAdd(@, normalizeObj(v))])
           ELSE IF targetOf(v) = Nil /\ isNode(v) THEN collect(rest, col)
           ELSE IF isQrl(v) THEN
             IF v \in col.seen THEN collect(rest, col)
             ELSE collect(valueTasks(captureRef(v)) \o rest,
                          [col EXCEPT !.seen = @ \cup {v},
                                      !.objSet = SetAdd(@, normalizeObj(v))])
           ELSE collect(<< <<"subs", normalizeObj(v)>>, <<"object", normalizeObj(v)>> >>
                          \o rest, col)
      [] task[1] = "subs" ->
           IF v[1] # "obj" \/ <<"subs", v[2]>> \in col.seen THEN collect(rest, col)
           ELSE collect([i \in 1..Len(subsOfTarget(v)) |->
                           IF isElement(subsOfTarget(v)[i])
                           THEN <<"element", subsOfTarget(v)[i]>>
                           ELSE <<"value", subsOfTarget(v)[i]>>] \o rest,
                        [col EXCEPT !.seen = @ \cup {<<"subs", v[2]>>}])
      [] task[1] = "object" ->
           IF v \in col.seen THEN collect(rest, col)
           ELSE collect([i \in 1..Len(fieldsOf(v)) |-> <<"value", fieldsOf(v)[i][2]>>]
                          \o rest,
                        [col EXCEPT !.seen = @ \cup {v}, !.objSet = SetAdd(@, v)])
      [] task[1] = "element" ->
           IF v \in col.seen THEN collect(rest, col)
           ELSE IF ~ctx[v[2]].has THEN
             collect(rest, [col EXCEPT !.seen = @ \cup {v}])
           ELSE collect(elementTasks(v[2]) \o rest,
                        [col EXCEPT !.seen = @ \cup {v},
                                    !.elements = Append(@, v[2])])

collectValue(obj, col) == collect(<< <<"value", obj>> >>, col)

collectElement(el, col) == collect(<< <<"element", El(el)>> >>, col)

\* the values the collection loop of snapshotState collects for one node:
\* its named-context values, then what its listeners capture
loopValues(node) ==
  [i \in 1..Len(ctx[node].contexts) |-> ctx[node].contexts[i][2]]
  \o Flatten([i \in 1..Len(ctx[node].listeners) |-> captureRef(ctx[node].listeners[i][2])])

RECURSIVE collectNodes(_, _)
collectNodes(nodes, col) ==
  IF nodes = <<>> THEN col
  ELSE collectNodes(Tail(nodes),
         [collect(valueTasks(loopValues(Head(nodes))), col)
            EXCEPT !.watches = @ \o ctx[Head(nodes)].watches])

----------------------------------------------------------------------------
(* Snapshot writer: snapshotState *)

\* hasSubscriptions(a): proxyMap.get(a)[QOjectSubsSymbol].size > 0
hasSubscriptions(a) == Len(subsOfTarget(a)) > 0

\* objs left in collection order
sortObjsSkipped(objSet) == objSet

\* objs.sort(...) with the comparator of snapshotState; Array.prototype.sort
\* is stable, so values with subscriptions come first, each group in
\* collection order
sortObjs(objSet) ==
  SelectSeq(objSet, hasSubscriptions)
  \o SelectSeq(objSet, LAMBDA a : ~hasSubscriptions(a))

\* objToId.get(obj): the index of obj in objs, NaN when it has none
objToId(objs, obj) ==
  IF \E i \in 1..Len(objs) : objs[i] = obj
  THEN (CHOOSE i \in 1..Len(objs) : objs[i] = obj) - 1
  ELSE NaN

\* elementToIndex after the getElementID calls made for els, in order: a
\* sequence of <<element, id>>, one entry per distinct element, the id being
\* Absent (null) for an element that is not connected
RECURSIVE allocIds(_, _)
allocIds(els, e2i) ==
  IF els = <<>> THEN e2i
  ELSE IF \E j \in 1..Len(e2i) : e2i[j][1] = Head(els) THEN allocIds(Tail(els), e2i)
  ELSE allocIds(Tail(els),
         Append(e2i, <<Head(els),
                       IF isConnectedEl(Head(els))
                       THEN ELEMENT_ID_PREFIX \o intToStr(Len(e2i))
                       ELSE Absent>>))

\* getElementID(el) once elementToIndex holds el
getElementID(e2i, el) ==
  IF \E j \in 1..Len(e2i) : e2i[j][1] = el
  THEN e2i[CHOOSE j \in 1..Len(e2i) : e2i[j][1] = el][2]
  ELSE Absent

\* getObjId(obj): Absent stands for null
getObjId(objs, e2i, obj) ==
  IF obj # Nil /\ isObjectType(obj) THEN
    IF objToId(objs, normalizeObj(IF targetOf(obj) # Nil THEN targetOf(obj) ELSE obj)) # NaN
    THEN intToStr(objToId(objs,
                    normalizeObj(IF targetOf(obj) # Nil THEN targetOf(obj) ELSE obj)))
         \o (IF targetOf(obj) # Nil THEN <<"!">> ELSE <<>>)
    ELSE IF targetOf(obj) = Nil /\ isNode(obj) THEN getElementID(e2i, obj[2])
    ELSE Absent
  ELSE IF objToId(objs, normalizeObj(obj)) # NaN
       THEN intToStr(objToId(objs, normalizeObj(obj)))
       ELSE Absent

\* the elements getObjId hands to getElementID while subs and convertedObjs
\* are computed: subscriber keys first, then element-valued fields and captures
subsKeyElements(objs) ==
  Flatten([i \in 1..Len(objs) |->
             SelectSeq(subsOfTarget(objs[i]),
                       LAMBDA sub : isNode(sub) /\ objToId(objs, sub) = NaN)])

fieldElements(objs) ==
  Flatten([i \in 1..Len(objs) |->
             SelectSeq(IF isQrl(objs[i]) THEN captureRef(objs[i])
                       ELSE [k \in 1..Len(fieldsOf(objs[i])) |-> fieldsOf(objs[i])[k][2]],
                       LAMBDA v : isNode(v) /\ objToId(objs, v) = NaN)])

elementIdCalls(objs) ==
  [i \in 1..Len(subsKeyElements(objs) \o fieldElements(objs)) |->
     (subsKeyElements(objs) \o fieldElements(objs))[i][2]]

\* the subs array: one serialized subscription map per value that has
\* subscriptions (a subscriber without an id leaves the entry
\* [undefined, undefined]); the values without subscriptions give null and
\* are filtered out
serializeSubs(objs, e2i) ==
  LET mapped == [i \in 1..Len(objs) |->
        IF Len(subsOfTarget(objs[i])) > 0
        THEN [null |-> FALSE,
              entries |-> [k \in 1..Len(subsOfTarget(objs[i])) |->
                IF getObjId(objs, e2i, subsOfTarget(objs[i])[k]) # Absent
                THEN <<getObjId(objs, e2i, subsOfTarget(objs[i])[k]),
                       subSet(objs[i][2], subsOfTarget(objs[i])[k])>>
                ELSE <<Absent, Undefined>>]]
        ELSE [null |-> TRUE, entries |-> <<>>]]
  IN SelectSeq(mapped, LAMBDA a : ~a.null)

\* serialize(value): the id of value, or the value itself when it has none
serialize(objs, e2i, value) ==
  IF getObjId(objs, e2i, value) # Absent
  THEN <<"string", getObjId(objs, e2i, value)>>
  ELSE <<"literal", value>>

convertObj(objs, e2i, obj) ==
  IF isQrl(obj)
  THEN [kind |-> "qrl", fields |-> <<>>,
        capture |-> [k \in 1..Len(captureRef(obj)) |->
                       getObjId(objs, e2i, captureRef(obj)[k])]]
  ELSE [kind |-> "record",
        fields |-> [k \in 1..Len(fieldsOf(obj)) |->
                      <<fieldsOf(obj)[k][1], serialize(objs, e2i, fieldsOf(obj)[k][2])>>],
        capture |-> <<>>]

----------------------------------------------------------------------------
(* Per-element metadata *)

NoMeta == [r |-> Absent, w |-> Absent, s |-> Absent, h |-> Absent, c |-> Absent]

SP == <<" ">>

idsOf(objs, e2i, values) == [i \in 1..Len(values) |-> getObjId(objs, e2i, values[i])]

\* the values of node that the metadata pass hands to mustGetObjId
metaValues(node, elementCaptured) ==
  ctx[node].refs
  \o (IF elementCaptured /\ ctx[node].props # Nil
      THEN <<ctx[node].props>>
           \o (IF ctx[node].renderQrl # Nil THEN <<ctx[node].renderQrl>> ELSE <<>>)
      ELSE <<>>)
  \o (IF elementCaptured THEN ctx[node].watches \o ctx[node].seq ELSE <<>>)
  \o [i \in 1..Len(ctx[node].contexts) |-> ctx[node].contexts[i][2]]

\* assertDefined fails in mustGetObjId for some value of node
metaFails(objs, e2i, node, elementCaptured) ==
  \E i \in 1..Len(metaValues(node, elementCaptured)) :
     getObjId(objs, e2i, metaValues(node, elementCaptured)[i]) = Absent

metaR(objs, e2i, node) ==
  IF Len(ctx[node].refs) > 0 /\ join(idsOf(objs, e2i, ctx[node].refs), SP) # <<>>
  THEN join(idsOf(objs, e2i, ctx[node].refs), SP) ELSE Absent

metaH(objs, e2i, node, elementCaptured) ==
  IF elementCaptured /\ ctx[node].props # Nil
  THEN join(idsOf(objs, e2i,
              <<ctx[node].props>>
              \o (IF ctx[node].renderQrl # Nil THEN <<ctx[node].renderQrl>> ELSE <<>>)), SP)
  ELSE Absent

\* metaValue.s: assigned from the watchers, then assigned from the sequence
\* state (both blocks write the field s)
metaS(objs, e2i, node, elementCaptured) ==
  LET fromWatches ==
        IF elementCaptured /\ Len(ctx[node].watches) > 0
        THEN join(idsOf(objs, e2i, ctx[node].watches), SP) ELSE Absent
      fromSeq ==
        IF elementCaptured /\ Len(ctx[node].seq) > 0
        THEN join(idsOf(objs, e2i, ctx[node].seq), SP) ELSE Absent
  IN IF fromSeq # Absent THEN fromSeq ELSE fromWatches

metaC(objs, e2i, node) ==
  IF Len(ctx[node].contexts) > 0
  THEN join([i \in 1..Len(ctx[node].contexts) |->
               ctx[node].contexts[i][1] \o <<"=">>
               \o getObjId(objs, e2i, ctx[node].contexts[i][2])], SP)
  ELSE Absent

metaValueOf(objs, e2i, node, elementCaptured) ==
  [r |-> metaR(objs, e2i, node),
   w |-> Absent,
   s |-> metaS(objs, e2i, node, elementCaptured),
   h |-> metaH(objs, e2i, node, elementCaptured),
   c |-> metaC(objs, e2i, node)]

\* The metadata pass over the elements of the scope walk. The result holds
\* the ctx entries written so far, elementToIndex, and whether an assertion
\* has stopped the pass.
RECURSIVE writeMeta(_, _, _, _)
writeMeta(nodes, objs, captured, acc) ==
  IF nodes = <<>> \/ acc.threw THEN acc
  ELSE
    LET node == Head(nodes)
        cap == node \in Range(captured)
        mv == metaValueOf(objs, acc.e2i, node, cap)
    IN IF metaFails(objs, acc.e2i, node, cap) THEN [acc EXCEPT !.threw = TRUE]
       ELSE IF mv = NoMeta THEN writeMeta(Tail(nodes), objs, captured, acc)
       ELSE LET e2i == allocIds(<<node>>, acc.e2i)
            IN IF getElementID(e2i, node) = Absent
               THEN [acc EXCEPT !.threw = TRUE, !.e2i = e2i]
               ELSE writeMeta(Tail(nodes), objs, captured,
                      [acc EXCEPT !.e2i = e2i,
                                  !.meta = Append(@, <<getElementID(e2i, node), mv>>)])

NoSnap ==
  [state |-> [ctx |-> <<>>, objs |-> <<>>, subs |-> <<>>],
   objs |-> <<>>, listeners |-> <<>>]

\* the ELEMENT_ID attributes after the setAttribute calls of getElementID
idAttrs(e2i) ==
  [e \in Elements |->
     IF getElementID(e2i, e) # Absent
     THEN SubSeq(getElementID(e2i, e), Len(ELEMENT_ID_PREFIX) + 1,
                 Len(getElementID(e2i, e)))
     ELSE qid[e]]

snapshotState(containerEl) ==
  /\ snapStatus = "none"
  /\ LET elements == getNodesInScope(containerEl, "hasContext")
         collector == collectNodes(elements, createCollector)
         objs == sortObjs(collector.objSet)
         e2i0 == allocIds(elementIdCalls(objs), <<>>)
         m == writeMeta(elements, objs, collector.elements,
                        [meta |-> <<>>, e2i |-> e2i0, threw |-> FALSE])
     IN /\ collected' = collector
        /\ qid' = idAttrs(m.e2i)
        /\ IF m.threw
           THEN /\ snapStatus' = "threw"
                /\ snap' = NoSnap
                /\ destroyed' = destroyed
           ELSE /\ snapStatus' = "returned"
                /\ snap' = [state |-> [ctx |-> m.meta,
                                       objs |-> [i \in 1..Len(objs) |->
                                                   convertObj(objs, m.e2i, objs[i])],
                                       subs |-> serializeSubs(objs, m.e2i)],
                            objs |-> objs,
                            listeners |-> Flatten([i \in 1..Len(elements) |->
                                                     ctx[elements[i]].listeners])]
                /\ destroyed' = destroyed \cup Range(collector.watches)
  /\ UNCHANGED <<present, qcontainer, scriptText, ctx, subsOf, setup, resVars,
                 removedCount, textVars>>

----------------------------------------------------------------------------
(* The running application before the snapshot: component state and
   subscriptions are built up step by step. *)

\* the elements whose component state is built up: the two elements of the
\* container's own scope. Element 3 belongs to the nested container; it can
\* subscribe, be detached and own a watcher.
Hosts == {1, 2}

RefValues == {Obj(i) : i \in Objs} \cup {Proxy(i) : i \in Objs}

live == snapStatus = "none" /\ setup < MaxSetup

touch(el, field, value) ==
  /\ ctx' = [ctx EXCEPT ![el] = [getContext(ctx, el) EXCEPT ![field] = value]]
  /\ setup' = setup + 1
  /\ UNCHANGED <<domVars, subsOf, destroyed, snapVars, resVars, removedCount, textVars>>

\* a value is added to the reference list of el (ctx.refMap)
AddRef(el, obj) ==
  /\ live
  /\ Len(ctx[el].refs) < MaxRefs
  /\ obj \notin Range(ctx[el].refs)
  /\ touch(el, "refs", Append(ctx[el].refs, obj))

SetProps(el) ==
  /\ live
  /\ ctx[el].props = Nil
  /\ touch(el, "props", Proxy(1))

SetRenderQrl(el) ==
  /\ live
  /\ ctx[el].renderQrl = Nil
  /\ touch(el, "renderQrl", RenderQrl)

AddSeq(el) ==
  /\ live
  /\ ctx[el].seq = <<>>
  /\ touch(el, "seq", <<Obj(NumObjs)>>)

AddWatch(el) ==
  /\ live
  /\ ctx[el].watches = <<>>
  /\ touch(el, "watches", <<Watch(el)>>)

SetContext(el) ==
  /\ live
  /\ ctx[el].contexts = <<>>
  /\ touch(el, "contexts", << <<(<<"k">>), Proxy(1)>> >>)

AddListener(el) ==
  /\ live
  /\ ctx[el].listeners = <<>>
  /\ touch(el, "listeners", << <<"click", ListenerQrl>> >>)

\* element sub subscribes to the proxy of object i
Subscribe(i, sub) ==
  /\ live
  /\ El(sub) \notin Range(subsOf[i])
  /\ subsOf' = [subsOf EXCEPT ![i] = Append(@, El(sub))]
  /\ setup' = setup + 1
  /\ UNCHANGED <<domVars, ctx, destroyed, snapVars, resVars, removedCount, textVars>>

\* element sub no longer subscribes to the proxy of object i
Unsubscribe(i, sub) ==
  /\ live
  /\ El(sub) \in Range(subsOf[i])
  /\ subsOf' = [subsOf EXCEPT ![i] = SelectSeq(@, LAMBDA x : x # El(sub))]
  /\ setup' = setup + 1
  /\ UNCHANGED <<domVars, ctx, destroyed, snapVars, resVars, removedCount, textVars>>

\* the snapshot is not embedded: the application keeps running and the
\* container can be snapshotted again. The ELEMENT_ID attributes the
\* snapshot wrote stay on the elements.
KeepRunning ==
  /\ snapStatus = "returned"
  /\ qcontainer[Root] = NoAttr
  /\ setup < MaxSetup
  /\ snapStatus' = "none"
  /\ snap' = NoSnap
  /\ collected' = createCollector
  /\ UNCHANGED <<domVars, liveVars, resVars, removedCount, textVars>>

----------------------------------------------------------------------------
(* Pausing: the snapshot is embedded in the document *)

\* JSON.stringify: a key whose value is undefined is left out
toJSON(state) ==
  [state EXCEPT !.subs = [i \in 1..Len(state.subs) |->
     [state.subs[i] EXCEPT !.entries = SelectSeq(@, LAMBDA e : e[2] # Undefined)]]]

\* the snapshot state is written into a qwik/json script, last child but one
\* of the container, and the container is marked as paused
EmbedSnapshot ==
  /\ snapStatus = "returned"
  /\ JsonScript \notin present
  /\ qcontainer[Root] = NoAttr
  /\ present' = present \cup {JsonScript}
  /\ scriptText' = toJSON(snap.state)
  /\ qcontainer' = [qcontainer EXCEPT ![Root] = <<"paused">>]
  /\ UNCHANGED <<qid, liveVars, snapVars, resVars, removedCount, textVars>>

paused == JsonScript \in present

\* an element is detached from the document
RemoveElement(el) ==
  /\ el \in present
  /\ \/ live /\ setup' = setup + 1 /\ UNCHANGED removedCount
     \/ paused /\ removedCount < MaxRemoved /\ removedCount' = removedCount + 1
               /\ UNCHANGED setup
  /\ present' = present \ {el}
  /\ UNCHANGED <<qcontainer, qid, scriptText, ctx, subsOf, destroyed, snapVars,
                 resVars, textVars>>

----------------------------------------------------------------------------
(* Snapshot reader: resumeContainer *)

Throw == <<"throw", 0>>

\* the elements Map of resumeContainer: <<prefixed id, element>> in scope order
collectElements(containerEl) ==
  [i \in 1..Len(getNodesInScope(containerEl, "hasQId")) |->
     <<ELEMENT_ID_PREFIX \o qid[getNodesInScope(containerEl, "hasQId")[i]],
       getNodesInScope(containerEl, "hasQId")[i]>>]

mapHas(m, key) == \E j \in 1..Len(m) : m[j][1] = key

\* Map.get after the set calls in m, a later set replacing an earlier one
mapGet(m, key) ==
  m[CHOOSE j \in 1..Len(m) : m[j][1] = key /\ \A k \in (j + 1)..Len(m) : m[k][1] # key][2]

\* the value objs[index] is once reviveValues has run
revivedAt(objs, index) ==
  IF objs[index + 1].kind = "qrl" THEN <<"rqrl", index>> ELSE <<"robj", index>>

\* getObjectImpl(id, elements, objs, proxyMap); Throw when an assertion fails.
\* The proxy of objs[index] is one value per index: proxyMap hands back the
\* proxy it already holds.
getObjectImpl(id, elements, objs) ==
  IF startsWith(id, ELEMENT_ID_PREFIX) THEN
    IF ~mapHas(elements, id) THEN Throw ELSE El(mapGet(elements, id))
  ELSE IF strToInt(id) = NaN \/ ~(Len(objs) > strToInt(id)) THEN Throw
  ELSE IF endsWith(id, <<"!">>) THEN <<"rproxy", strToInt(id)>>
  ELSE revivedAt(objs, strToInt(id))

getObjects(ids, elements, objs) ==
  [i \in 1..Len(ids) |-> getObjectImpl(ids[i], elements, objs)]

\* reviveValues: for every value that is not a string, the subscription map
\* rebuilt from subs[i] and handed to _restoreQObject
reviveValues(objs, subs, elements) ==
  [i \in 1..Len(objs) |->
     IF objs[i].kind = "qrl" \/ i > Len(subs) THEN [has |-> FALSE, converted |-> <<>>]
     ELSE [has |-> TRUE,
           converted |->
             SelectSeq([k \in 1..Len(subs[i].entries) |->
                          <<getObjectImpl(subs[i].entries[k][1], elements, objs),
                            subs[i].entries[k][2]>>],
                       LAMBDA e : e[1] # Undefined)]]

\* getObject fails an assertion while the map of objs[i] is rebuilt
reviveThrowsAt(objs, subs, elements, i) ==
  \E k \in 1..Len(reviveValues(objs, subs, elements)[i].converted) :
     reviveValues(objs, subs, elements)[i].converted[k][1] = Throw

reviveValuesThrows(objs, subs, elements) ==
  \E i \in 1..Len(objs) : reviveThrowsAt(objs, subs, elements, i)

\* the maps _restoreQObject received before reviveValues stopped
restoredBeforeThrow(objs, subs, elements) ==
  SubSeq(reviveValues(objs, subs, elements), 1,
         (CHOOSE i \in 1..Len(objs) :
            /\ reviveThrowsAt(objs, subs, elements, i)
            /\ \A j \in 1..(i - 1) : ~reviveThrowsAt(objs, subs, elements, j)) - 1)

\* reviveNestedObjects(obj, getObject) for the value at objs[i]
reviveNestedObjects(objs, i, elements) ==
  [kind |-> objs[i].kind,
   fields |-> [k \in 1..Len(objs[i].fields) |->
                 <<objs[i].fields[k][1],
                   IF objs[i].fields[k][2][1] = "string"
                   THEN getObjectImpl(objs[i].fields[k][2][2], elements, objs)
                   ELSE objs[i].fields[k][2][2]>>],
   capture |-> getObjects(objs[i].capture, elements, objs)]

reviveNestedThrows(objs, elements) ==
  \E i \in 1..Len(objs) :
     \/ \E k \in 1..Len(reviveNestedObjects(objs, i, elements).fields) :
           reviveNestedObjects(objs, i, elements).fields[k][2] = Throw
     \/ Throw \in Range(reviveNestedObjects(objs, i, elements).capture)

\* if (field): the optional string is present and not empty
truthy(field) == field # Absent /\ field # <<>>

\* ctx.contexts.set(key, value)
contextsSet(contexts, key, value) ==
  IF \E j \in 1..Len(contexts) : contexts[j][1] = key
  THEN [j \in 1..Len(contexts) |->
          IF contexts[j][1] = key THEN <<key, value>> ELSE contexts[j]]
  ELSE Append(contexts, <<key, value>>)

RECURSIVE restoreContexts(_, _, _, _)
restoreContexts(parts, contexts, elements, objs) ==
  IF parts = <<>> THEN contexts
  ELSE restoreContexts(Tail(parts),
         contextsSet(contexts, split(Head(parts), "=")[1],
                     getObjectImpl(split(Head(parts), "=")[2], elements, objs)),
         elements, objs)

\* One entry of meta.ctx restored onto the component state c of its element:
\* the fields are restored in the order r, s, w, c, h and an assertion that
\* fails leaves the fields restored before it in place.
restoreMeta(c, meta, elements, objs) ==
  LET qobj == IF truthy(meta.r) THEN getObjects(split(meta.r, " "), elements, objs) ELSE <<>>
      seq == IF truthy(meta.s) THEN getObjects(split(meta.s, " "), elements, objs) ELSE <<>>
      watches == IF truthy(meta.w) THEN getObjects(split(meta.w, " "), elements, objs) ELSE <<>>
      contexts == IF truthy(meta.c)
                  THEN restoreContexts(split(meta.c, " "), c.contexts, elements, objs)
                  ELSE c.contexts
      host == IF truthy(meta.h) THEN split(meta.h, " ") ELSE <<>>
      c1 == [c EXCEPT !.refs = @ \o qobj]
      c2 == IF truthy(meta.s) THEN [c1 EXCEPT !.seq = seq] ELSE c1
      c3 == IF truthy(meta.w) THEN [c2 EXCEPT !.watches = watches] ELSE c2
      c4 == [c3 EXCEPT !.contexts = contexts]
  IN IF Throw \in Range(qobj) THEN [threw |-> TRUE, c |-> c]
     ELSE IF Throw \in Range(seq) THEN [threw |-> TRUE, c |-> c1]
     ELSE IF Throw \in Range(watches) THEN [threw |-> TRUE, c |-> c2]
     ELSE IF \E j \in 1..Len(contexts) : contexts[j][2] = Throw
          THEN [threw |-> TRUE, c |-> c3]
     ELSE IF ~truthy(meta.h) THEN [threw |-> FALSE, c |-> c4]
     ELSE IF Len(host) < 2 THEN [threw |-> TRUE, c |-> c4]
     ELSE IF getObjectImpl(host[1], elements, objs) = Throw
          THEN [threw |-> TRUE, c |-> c4]
     ELSE IF getObjectImpl(host[2], elements, objs) = Throw
          THEN [threw |-> TRUE,
                c |-> [c4 EXCEPT !.props = getObjectImpl(host[1], elements, objs)]]
     ELSE [threw |-> FALSE,
           c |-> [c4 EXCEPT !.props = getObjectImpl(host[1], elements, objs),
                            !.renderQrl = getObjectImpl(host[2], elements, objs)]]

\* Object.entries(meta.ctx).forEach(...): acc holds the component state of
\* every element and whether an assertion has stopped the loop
RECURSIVE restoreCtx(_, _, _, _)
restoreCtx(entries, elements, objs, acc) ==
  IF entries = <<>> \/ acc.threw THEN acc
  ELSE LET el == getObjectImpl(Head(entries)[1], elements, objs)
       IN IF el = Throw THEN [acc EXCEPT !.threw = TRUE]
          ELSE LET got == restoreMeta(getContext(acc.rctx, el[2]), Head(entries)[2],
                                      elements, objs)
               IN restoreCtx(Tail(entries), elements, objs,
                    [threw |-> got.threw, rctx |-> [acc.rctx EXCEPT ![el[2]] = got.c]])

\* resumeContainer runs in the browser, on a document the server has paused
\* (the container carries its marker)
resumeContainer(containerEl) ==
  /\ qcontainer[Root] # NoAttr
  /\ UNCHANGED <<qid, scriptText, liveVars, snapVars, removedCount, textVars>>
  /\ IF ~isContainer(containerEl) \/ getQwikJSON(containerEl) = Nil
     THEN /\ resumeStatus' = "skipped"
          /\ UNCHANGED <<present, qcontainer, rctx, robjs, restored, qresume>>
     ELSE
       LET script == getQwikJSON(containerEl)[2]
           meta == scriptText
           elements == collectElements(containerEl)
           revived == reviveValues(meta.objs, meta.subs, elements)
           nested == [i \in 1..Len(meta.objs) |->
                        reviveNestedObjects(meta.objs, i, elements)]
           done == restoreCtx(meta.ctx, elements, meta.objs,
                              [threw |-> FALSE, rctx |-> rctx])
       IN /\ present' = removeScript(script)
          /\ IF reviveValuesThrows(meta.objs, meta.subs, elements)
             THEN /\ resumeStatus' = "threw"
                  /\ restored' = restoredBeforeThrow(meta.objs, meta.subs, elements)
                  /\ UNCHANGED <<qcontainer, rctx, robjs, qresume>>
             ELSE IF reviveNestedThrows(meta.objs, elements)
             THEN /\ resumeStatus' = "threw"
                  /\ restored' = revived
                  /\ UNCHANGED <<qcontainer, rctx, robjs, qresume>>
             ELSE /\ restored' = revived
                  /\ robjs' = nested
                  /\ rctx' = done.rctx
                  /\ IF done.threw
                     THEN /\ resumeStatus' = "threw"
                          /\ UNCHANGED <<qcontainer, qresume>>
                     ELSE /\ resumeStatus' = "done"
                          /\ qcontainer' = [qcontainer EXCEPT ![containerEl] = <<"resumed">>]
                          /\ qresume' = qresume + 1

----------------------------------------------------------------------------
(* Text helpers. A string is a sequence of tokens: "<", "\", "/", and the
   words "x3C", "script" and "SCRIPT". *)

Tokens == {"<", "\\", "/", "x3C", "script", "SCRIPT"}

\* the capture group (\/?script) matches at the head of s
groupLen(s) ==
  IF Len(s) >= 1 /\ s[1] = "script" THEN 1
  ELSE IF Len(s) >= 2 /\ s[1] = "/" /\ s[2] = "script" THEN 2
  ELSE 0

\* str.replace(/<(\/?script)/g, '\\x3C$1')
RECURSIVE escapeText(_)
escapeText(s) ==
  IF s = <<>> THEN <<>>
  ELSE IF s[1] = "<" /\ groupLen(Tail(s)) > 0
  THEN <<"\\", "x3C">> \o SubSeq(s, 2, 1 + groupLen(Tail(s)))
       \o escapeText(SubSeq(s, 2 + groupLen(Tail(s)), Len(s)))
  ELSE <<s[1]>> \o escapeText(Tail(s))

\* str.replace(/\\x3C(\/?script)/g, '<$1')
RECURSIVE unescapeText(_)
unescapeText(s) ==
  IF s = <<>> THEN <<>>
  ELSE IF Len(s) >= 2 /\ s[1] = "\\" /\ s[2] = "x3C" /\ groupLen(SubSeq(s, 3, Len(s))) > 0
  THEN <<"<">> \o SubSeq(s, 3, 2 + groupLen(SubSeq(s, 3, Len(s))))
       \o unescapeText(SubSeq(s, 3 + groupLen(SubSeq(s, 3, Len(s))), Len(s)))
  ELSE <<s[1]>> \o unescapeText(Tail(s))

----------------------------------------------------------------------------

NoText == <<"NOTEXT">>

Init ==
  /\ present = {1, 2, 3, Nested, OtherScript}
  /\ qcontainer = [n \in Nodes |-> IF n = Nested THEN <<"resumed">> ELSE NoAttr]
  /\ qid = [e \in Elements |-> NoAttr]
  /\ scriptText = toJSON(NoSnap.state)
  /\ ctx = [e \in Elements |-> EmptyCtx]
  /\ subsOf = [i \in Objs |-> <<>>]
  /\ destroyed = {}
  /\ setup = 0
  /\ snapStatus = "none"
  /\ snap = NoSnap
  /\ collected = createCollector
  /\ rctx = [e \in Elements |-> EmptyCtx]
  /\ robjs = <<>>
  /\ restored = <<>>
  /\ resumeStatus = "none"
  /\ removedCount = 0
  /\ qresume = 0
  /\ str = <<>>
  /\ escaped = NoText
  /\ unescaped = NoText

Next ==
  \/ \E el \in Hosts, obj \in RefValues : AddRef(el, obj)
  \/ \E el \in Hosts : SetProps(el)
  \/ \E el \in Hosts : SetRenderQrl(el)
  \/ \E el \in Hosts : AddSeq(el)
  \/ \E el \in Elements : AddWatch(el)
  \/ \E el \in Hosts : SetContext(el)
  \/ \E el \in Hosts : AddListener(el)
  \/ \E i \in Objs, sub \in Elements : Subscribe(i, sub)
  \/ \E i \in Objs, sub \in Elements : Unsubscribe(i, sub)
  \/ KeepRunning
  \/ snapshotState(Root)
  \/ EmbedSnapshot
  \/ \E el \in Elements : RemoveElement(el)
  \/ \E containerEl \in {Root, Nested, 1} : resumeContainer(containerEl)

Spec == Init /\ [][Next]_vars

----------------------------------------------------------------------------
(* The text helpers on their own: every input up to MaxStrLen tokens *)

Strings == UNION {[1..n -> Tokens] : n \in 0..MaxStrLen}

InitText ==
  /\ present = {1, 2, 3, Nested, OtherScript}
  /\ qcontainer = [n \in Nodes |-> IF n = Nested THEN <<"resumed">> ELSE NoAttr]
  /\ qid = [e \in Elements |-> NoAttr]
  /\ scriptText = toJSON(NoSnap.state)
  /\ ctx = [e \in Elements |-> EmptyCtx]
  /\ subsOf = [i \in Objs |-> <<>>]
  /\ destroyed = {}
  /\ setup = 0
  /\ snapStatus = "none"
  /\ snap = NoSnap
  /\ collected = createCollector
  /\ rctx = [e \in Elements |-> EmptyCtx]
  /\ robjs = <<>>
  /\ restored = <<>>
  /\ resumeStatus = "none"
  /\ removedCount = 0
  /\ qresume = 0
  /\ str \in Strings
  /\ escaped = NoText
  /\ unescaped = NoText

EscapeText ==
  /\ escaped = NoText
  /\ escaped' = escapeText(str)
  /\ UNCHANGED <<domVars, liveVars, snapVars, resVars, removedCount, str, unescaped>>

UnescapeText ==
  /\ escaped # NoText
  /\ unescaped = NoText
  /\ unescaped' = unescapeText(escaped)
  /\ UNCHANGED <<domVars, liveVars, snapVars, resVars, removedCount, str, escaped>>

NextText == EscapeText \/ UnescapeText

SpecText == InitText /\ [][NextText]_vars

----------------------------------------------------------------------------
(* Properties *)

\* the qwik/json script has been embedded and a resumeContainer call has
\* removed it
consumed == qcontainer[Root] # NoAttr /\ JsonScript \notin present

\* C6: for every string s, also one that holds the escaped form \x3Cscript,
\* unescapeText(escapeText(s)) equals s.
C6_EscapeRoundTrip == unescaped # NoText => unescaped = str

\* an element has no qwik/json script among its attached children
noJsonScript(el) ==
  \A c \in Range(childNodes(el)) :
     c \in present => ~(tagName(c) = "SCRIPT" /\ typeAttr(c) = "qwik/json")

\* C3: a resumeContainer call on an element that is not marked as a container,
\* or that has no qwik/json script, removes no script, leaves the container
\* marker and every component-state record as they are and dispatches no
\* 'qresume' event.
C3_FailedPreconditionChangesNothing ==
  [][\A el \in {Root, Nested, 1} :
       ((qcontainer[el] = NoAttr \/ noJsonScript(el)) /\ resumeContainer(el))
       => UNCHANGED <<present, qcontainer, qid, scriptText, rctx, robjs, restored,
                      qresume>>]_vars

\* a call was skipped while the document holds a snapshot script (the call was
\* made on an element that is no container or has no script of its own)
C3_Witness ==
  /\ resumeStatus = "skipped"
  /\ JsonScript \in present
  /\ Len(scriptText.ctx) > 0

\* the element an element id of the snapshot names
elementOfId(id) == CHOOSE e \in Elements : qid[e] # NoAttr /\ ELEMENT_ID_PREFIX \o qid[e] = id

\* the metadata of one ctx entry is on the component state of its element
attached(entry) ==
  /\ \E e \in Elements : qid[e] # NoAttr /\ ELEMENT_ID_PREFIX \o qid[e] = entry[1]
  /\ LET c == rctx[elementOfId(entry[1])]
         m == entry[2]
     IN /\ c.has
        /\ m.r # Absent => Len(c.refs) = Len(split(m.r, " "))
        /\ m.s # Absent => Len(c.seq) = Len(split(m.s, " "))
        /\ m.w # Absent => Len(c.watches) = Len(split(m.w, " "))
        /\ m.c # Absent => Len(c.contexts) = Len(split(m.c, " "))
        /\ m.h # Absent => c.props # Nil /\ c.renderQrl # Nil

allAttached == \A i \in 1..Len(scriptText.ctx) : attached(scriptText.ctx[i])

\* C4: over any sequence of resumeContainer calls on a container holding one
\* snapshot script, of a document left as the snapshot wrote it, the
\* 'qresume' event is dispatched exactly once: by the call that consumes the
\* script, with the metadata of every ctx entry attached and the container
\* marked 'resumed'; no later call dispatches it again.
C4_ResumeEventOnce ==
  removedCount = 0 =>
    /\ qresume <= 1
    /\ consumed <=> qresume = 1
    /\ qresume = 1 => allAttached /\ qcontainer[Root] = <<"resumed">>

\* the subscribers of the value at objs[i] that the snapshot gave an id
subscribersWithId(i) ==
  [k \in 1..Len(subsOfTarget(snap.objs[i])) |->
     <<subsOfTarget(snap.objs[i])[k], snap.state.subs[i].entries[k][1]>>]

\* getObject(id) of resumeContainer: what an id of the snapshot resolves to
getObject(id) == getObjectImpl(id, collectElements(Root), snap.state.objs)

\* C2: in every snapshot snapshotState returns, subs is index-aligned with
\* objs: subs[i] is the serialized subscription map of the value at objs[i],
\* every value with subscriptions has its map at its own index, the values
\* with subscriptions precede those without, and the map reviveValues
\* restores onto the value at index i is the one built from the ids that
\* the subscribers of objs[i] were serialized with (which element such an id
\* resolves to is the subject of C11).
C2_SubsAlignedWithObjs ==
  snapStatus = "returned" =>
    /\ Len(snap.state.objs) = Len(snap.objs)
    /\ \A i \in 1..Len(snap.objs) :
         IF Len(subsOfTarget(snap.objs[i])) > 0
         THEN /\ i <= Len(snap.state.subs)
              /\ Len(snap.state.subs[i].entries) = Len(subsOfTarget(snap.objs[i]))
              /\ \A k \in 1..Len(snap.state.subs[i].entries) :
                   LET sub == subsOfTarget(snap.objs[i])[k]
                       entry == snap.state.subs[i].entries[k]
                   IN /\ entry[1] # Absent => entry[2] = subSet(snap.objs[i][2], sub)
                      /\ removedCount = 0 =>
                           entry[1] = (IF isConnectedEl(sub[2])
                                       THEN ELEMENT_ID_PREFIX \o qid[sub[2]]
                                       ELSE Absent)
              /\ \A j \in 1..Len(snap.objs) :
                   Len(subsOfTarget(snap.objs[j])) = 0 => i < j
         ELSE i > Len(snap.state.subs)
    /\ \A i \in 1..Len(restored) :
         IF restored[i].has
         THEN /\ Len(subsOfTarget(snap.objs[i])) > 0
              /\ \A k \in 1..Len(restored[i].converted) :
                   /\ restored[i].converted[k][1]
                        \in {getObject(subscribersWithId(i)[m][2]) :
                               m \in {n \in 1..Len(subscribersWithId(i)) :
                                        subscribersWithId(i)[n][2] # Absent}}
                            \cup {Throw}
                   /\ restored[i].converted[k][2]
                        = subSet(snap.objs[i][2], restored[i].converted[k][1])
         ELSE Len(subsOfTarget(snap.objs[i])) = 0
    /\ qresume = 1 =>
         \A i \in 1..Len(snap.objs) :
            Len(subsOfTarget(snap.objs[i])) > 0 =>
              /\ restored[i].has
              /\ [k \in 1..Len(restored[i].converted) |-> restored[i].converted[k][1]]
                   = [k \in 1..Len(SelectSeq(subscribersWithId(i), LAMBDA p : p[2] # Absent))
                        |-> getObject(SelectSeq(subscribersWithId(i),
                                               LAMBDA p : p[2] # Absent)[k][2])]

\* a value without subscriptions was collected before a value with
\* subscriptions, and the map of the latter has been restored at resume
C2_Witness ==
  /\ qresume = 1
  /\ \E i, j \in 1..Len(collected.objSet) :
        /\ i < j
        /\ ~hasSubscriptions(collected.objSet[i])
        /\ hasSubscriptions(collected.objSet[j])
  /\ \E i \in 1..Len(restored) : restored[i].has /\ Len(restored[i].converted) > 0

\* the elements with component state that the scope walk of the container finds
inScope(e) == e \in Range(getNodesInScope(Root, "hasContext"))

\* the ctx entry the snapshot holds for element e
hasMeta(e) ==
  qid[e] # NoAttr /\ mapHas(snap.state.ctx, ELEMENT_ID_PREFIX \o qid[e])
metaOf(e) == mapGet(snap.state.ctx, ELEMENT_ID_PREFIX \o qid[e])

\* the value a source value is revived as: the object, or the proxy, at the
\* index the source value has in objs
revivedForm(v) ==
  <<IF v[1] = "proxy" THEN "rproxy" ELSE IF v[1] = "qrl" THEN "rqrl" ELSE "robj",
    objToId(snap.objs, normalizeObj(v))>>

revivedForms(values) == [i \in 1..Len(values) |-> revivedForm(values[i])]

\* every value the component state of e holds
stateValues(e) ==
  Range(ctx[e].refs) \cup Range(ctx[e].seq) \cup Range(ctx[e].watches)
  \cup {ctx[e].contexts[i][2] : i \in 1..Len(ctx[e].contexts)}
  \cup ({ctx[e].props, ctx[e].renderQrl} \ {Nil})

\* C1: when two elements with state in the container's scope hold the same
\* object in their reference lists (raw or through its proxy), snapshotState
\* emits exactly one objs entry for it and both r fields name its index;
\* after resumeContainer both revived entries are the object at that index,
\* and references to distinct objects are revived as distinct objects.
C1_SharedReferenceIdentity ==
  (snapStatus # "none" /\ removedCount = 0) =>
    \A a, b \in Elements :
      (a # b /\ inScope(a) /\ inScope(b)) =>
        \A i \in 1..Len(ctx[a].refs), j \in 1..Len(ctx[b].refs) :
          IF normalizeObj(ctx[a].refs[i]) = normalizeObj(ctx[b].refs[j])
          THEN /\ snapStatus = "returned"
               /\ Cardinality({n \in 1..Len(snap.objs) :
                                 snap.objs[n] = normalizeObj(ctx[a].refs[i])}) = 1
               /\ hasMeta(a) /\ hasMeta(b)
               /\ strToInt(split(metaOf(a).r, " ")[i])
                    = objToId(snap.objs, normalizeObj(ctx[a].refs[i]))
               /\ strToInt(split(metaOf(b).r, " ")[j])
                    = objToId(snap.objs, normalizeObj(ctx[a].refs[i]))
               /\ consumed =>
                    /\ qresume = 1
                    /\ rctx[a].refs[i] = revivedForm(ctx[a].refs[i])
                    /\ rctx[b].refs[j] = revivedForm(ctx[b].refs[j])
          ELSE consumed =>
                 /\ qresume = 1
                 /\ rctx[a].refs[i][2] # rctx[b].refs[j][2]

\* C5: when an element of the container's scope that the snapshot names only
\* as a subscription key has been detached, or has lost its id attribute,
\* before resumeContainer runs, the call completes, marks the container
\* 'resumed', and rebuilds every subscription map with its other subscribers.
C5_MissingSubscriberTolerated ==
  (/\ consumed
   /\ \E e \in {1, 2} :
        /\ e \notin present \/ qid[e] = NoAttr
        /\ \E i \in Objs : El(e) \in Range(subsOf[i])
   /\ \A i \in Objs : El(3) \notin Range(subsOf[i])
   /\ \A n \in 1..Len(scriptText.ctx) :
        /\ mapHas(collectElements(Root), scriptText.ctx[n][1])
        /\ scriptText.ctx[n][2].h # Absent => Len(split(scriptText.ctx[n][2].h, " ")) = 2)
  => /\ qresume = 1
     /\ qcontainer[Root] = <<"resumed">>
     /\ \A i \in 1..Len(snap.objs) :
          Len(subsOfTarget(snap.objs[i])) > 0 =>
            /\ i <= Len(restored)
            /\ restored[i].has
            /\ [k \in 1..Len(restored[i].converted) |-> restored[i].converted[k][1]]
                 = SelectSeq(subsOfTarget(snap.objs[i]),
                             LAMBDA sub : sub[2] \in present /\ qid[sub[2]] # NoAttr)

\* C7: after snapshotState returns, every watcher serialized into the
\* snapshot and every watcher gathered during collection has been destroyed.
C7_SerializedWatchersDestroyed ==
  snapStatus = "returned" =>
    /\ Range(collected.watches) \subseteq destroyed
    /\ \A n \in 1..Len(snap.objs) :
         snap.objs[n][1] = "watch" => snap.objs[n] \in destroyed

\* C8: for an element whose state snapshotState captures and that has
\* watchers, snapshotState followed by resumeContainer leaves the revived
\* watchers in the element's watcher list and the revived sequence entries in
\* its sequence list.
C8_WatchersAndSeqRestored ==
  (qresume = 1 /\ removedCount = 0) =>
    \A e \in Elements :
      (inScope(e) /\ e \in Range(collected.elements) /\ Len(ctx[e].watches) > 0) =>
        /\ rctx[e].watches = revivedForms(ctx[e].watches)
        /\ rctx[e].seq = revivedForms(ctx[e].seq)

\* C9: every h field snapshotState emits holds exactly two ids, the id of the
\* props followed by the id of the render closure.
C9_HostHasTwoIds ==
  (snapStatus = "returned" /\ removedCount = 0) =>
    \A e \in Elements :
      (hasMeta(e) /\ metaOf(e).h # Absent) =>
        /\ Len(split(metaOf(e).h, " ")) = 2
        /\ strToInt(split(metaOf(e).h, " ")[1]) = objToId(snap.objs, normalizeObj(ctx[e].props))
        /\ strToInt(split(metaOf(e).h, " ")[2])
             = objToId(snap.objs, normalizeObj(ctx[e].renderQrl))

\* C10: for every element with state that the scope walk finds, its props,
\* render closure, sequence entries, reference-list entries, watchers and
\* named-context values are in the collected value set, and mustGetObjId
\* does not fail while the metadata is written.
C10_ScopeElementsCollected ==
  (snapStatus # "none" /\ removedCount = 0) =>
    /\ snapStatus = "returned"
    /\ \A e \in Elements :
         inScope(e) => \A v \in stateValues(e) : normalizeObj(v) \in Range(collected.objSet)

\* the elements of the container's scope that carry an ELEMENT_ID attribute
idElements == Range(getNodesInScope(Root, "hasQId"))

\* C11: after any sequence of snapshotState and resumeContainer calls on the
\* container, a second snapshot of elements that still carry the ids of an
\* earlier one included, no two elements of the container's scope carry the
\* same ELEMENT_ID value; every subscription key the snapshot holds for an
\* element of the scope resolves, in the element lookup of resumeContainer,
\* to that element, and resumeContainer attaches component state only to
\* elements that had component state when the snapshot was written.
C11_ElementIdsUnique ==
  /\ \A a, b \in idElements : a # b => qid[a] # qid[b]
  /\ (snapStatus = "returned" /\ removedCount = 0) =>
       \A i \in 1..Len(snap.objs) :
          Len(subsOfTarget(snap.objs[i])) > 0 =>
            \A k \in 1..Len(snap.state.subs[i].entries) :
               LET sub == subsOfTarget(snap.objs[i])[k]
                   id == snap.state.subs[i].entries[k][1]
               IN (id # Absent /\ sub[2] \in {1, 2}) =>
                    /\ mapHas(collectElements(Root), id)
                    /\ mapGet(collectElements(Root), id) = sub[2]
  /\ (qresume = 1 /\ removedCount = 0) =>
       \A e \in Elements : rctx[e].has => ctx[e].has

====
